---- MODULE Spec2Model ----
(***************************************************************************)
(* Model of the multi-tenant agent session manager (server/agent_manager.py)*)
(* and of the HTTP handlers that drive it (server/main.py).                 *)
(*                                                                         *)
(* The server is one asyncio event loop: a handler runs without            *)
(* interruption up to its next await.  /login and /logout contain no await  *)
(* and are one step each; /chat awaits the agent backend once, so it is two *)
(* steps (ChatStart, then ChatReturn or ChatFail); the reaper task is one   *)
(* step per sweep.                                                          *)
(***************************************************************************)
EXTENDS Integers, Sequences, FiniteSets, TLC

\* ------------------------------------------------------------------ bounds
MaxSessions == 2      \* session objects ever created
MaxCalls    == 2      \* chat requests ever issued
MaxTime     == 3600   \* the clock stops here
MaxSweeps   == 8      \* iterations of the reaper task (ReaperSpec)

\* ------------------------------------------------------- program constants
CleanupTimeout == 1800   \* cleanup_inactive_sessions(timeout=1800)
SweepPeriod    == 300    \* asyncio.sleep(300)
ProvisionTimeout == 100  \* load_mcp_server(username, self.mcp_configs, 100)

\* the clock advances by the idle threshold, so that a session is seen exactly
\* at the threshold (idle for CleanupTimeout) and beyond it
TickStep == CleanupTimeout

\* ------------------------------------------------------------ input domains
Users     == {"alice", "bob"}
NameInputs == Users \cup {""}

\* the message field of a /chat request
Messages == {"", "hello"}

\* what can be wrong with a /login request or with the services it uses; a
\* request has at most one fault
LoginFaults == {"none", "no_username", "no_model", "no_key", "no_prompt", "db",
                "unknown_user", "bad_password", "config_error",
                "workspace_error", "build"}

\* rows of schema_user.user_login: <<username, password>>
UserLoginRows == {<<"alice", "pw_a">>, <<"bob", "pw_b">>}

None == 0

\* A string is the sequence of its pieces, so that concatenation is \o and
\* two strings are equal exactly when they are built from the same pieces.
Str(s) == <<s>>

\* self.workspace_root = None
NoRoot == <<>>

\* self.filesystem_mcp_name
filesystem_mcp_name == Str("@modelcontextprotocol/server-filesystem")

\* os.path.abspath('../workspace')
WorkspaceRoot == Str("/srv/workspace")

\* the toolset configuration files login names; 'admin' also gets the map tools
mcp_configs_of(username) ==
  IF username = "admin" THEN <<"base", "office", "map">> ELSE <<"base", "office">>

ConfigNames == {"base", "office", "map"}

VARIABLES
  sessions,     \* AgentManager.sessions: username -> session object (its id)
  objs,         \* every UserSession object ever built, by id (1..Len(objs))
  workspace_root, \* AgentManager.workspace_root
  dirs,         \* the directories that exist on disk
  calls,        \* the /chat requests: position and locals of each coroutine
  now,          \* time.time()
  resp          \* what the last request that changed anything was answered

vars == <<sessions, objs, workspace_root, dirs, calls, now, resp>>

\* ------------------------------------------------------------ small helpers
Restrict(f, S) == [x \in S |-> f[x]]

Manager(s, o, w) == [sessions |-> s, objs |-> o, workspace_root |-> w]

\* AgentConfig(...) as built by login
AgentConfig(model_name, api_key, system_prompt, root, mcp_configs) ==
  [model_name |-> model_name, api_key |-> api_key, system_prompt |-> system_prompt,
   workspace_root |-> root, mcp_configs |-> mcp_configs]

\* Agent(model, system_prompt=..., toolsets=mcp_server)
Agent(id, toolsets) == [id |-> id, toolsets |-> toolsets]

NoAgent == Agent(None, <<>>)

\* the records one turn adds to the message list: the request and the answer
TurnRecords(c) == << <<c, "user">>, <<c, "agent">> >>

\* result.all_messages() of agent.run(message, message_history=h): the
\* backend's contract is "the history it was given, then this turn's records"
AllMessages(h, c) == h \o TurnRecords(c)

\* ------------------------------------------------------------ AgentManager
get_session(M, username) ==
  IF username \in DOMAIN M.sessions THEN M.sessions[username] ELSE None

\* close_session without "session.is_active = False"
close_session_noflag(M, username) ==
  IF username \in DOMAIN M.sessions
  THEN [M EXCEPT !.sessions = Restrict(M.sessions, DOMAIN M.sessions \ {username})]
  ELSE M

\* close_session without "del self.sessions[username]" (a soft delete)
close_session_soft(M, username) ==
  IF username \in DOMAIN M.sessions
  THEN [M EXCEPT !.objs[M.sessions[username]].is_active = FALSE]
  ELSE M

\* close_session waiting for the chat calls of the session: while one of them
\* is in the backend the session stays
close_session_busy(M, username) ==
  IF username \in DOMAIN M.sessions
       /\ ~\E c \in 1..MaxCalls :
             calls[c].pc = "backend" /\ calls[c].sid = M.sessions[username]
  THEN LET sid == M.sessions[username]
       IN  [M EXCEPT !.sessions = Restrict(M.sessions, DOMAIN M.sessions \ {username}),
                     !.objs = [M.objs EXCEPT ![sid].is_active = FALSE]]
  ELSE M

close_session(M, username) ==
  IF username \in DOMAIN M.sessions
  THEN LET sid == M.sessions[username]
       IN  [M EXCEPT !.sessions = Restrict(M.sessions, DOMAIN M.sessions \ {username}),
                     !.objs = [M.objs EXCEPT ![sid].is_active = FALSE]]
  ELSE M

\* update_last_active writing the time the process started
update_last_active_reset(M, username, t) ==
  IF username \in DOMAIN M.sessions
  THEN [M EXCEPT !.objs[M.sessions[username]].last_active = 0]
  ELSE M

\* update_last_active stamping every session of the store
update_last_active_all(M, username, t) ==
  IF username \in DOMAIN M.sessions
  THEN [M EXCEPT !.objs = [i \in 1..Len(M.objs) |->
                             IF \E v \in DOMAIN M.sessions : M.sessions[v] = i
                             THEN [M.objs[i] EXCEPT !.last_active = t]
                             ELSE M.objs[i]]]
  ELSE M

update_last_active(M, username, t) ==
  IF username \in DOMAIN M.sessions
  THEN [M EXCEPT !.objs[M.sessions[username]].last_active = t]
  ELSE M

\* the difference taken the wrong way round
IsIdle_reversed(last_active, current_time, timeout) ==
  last_active - current_time > timeout

\* the comparison with >= instead of >
IsIdle_inclusive(last_active, current_time, timeout) ==
  current_time - last_active >= timeout

IsIdle(last_active, current_time, timeout) ==
  current_time - last_active > timeout

RECURSIVE CloseAll(_, _)
CloseAll(M, S) ==
  IF S = {} THEN M
  ELSE LET u == CHOOSE x \in S : TRUE
       IN  CloseAll(close_session(M, u), S \ {u})

cleanup_inactive_sessions(M, timeout, current_time) ==
  LET inactive_users ==
        {u \in DOMAIN M.sessions :
            IsIdle(M.objs[M.sessions[u]].last_active, current_time, timeout)}
  IN  CloseAll(M, inactive_users)

\* ------------------------------------------------------- tool provisioning
\* load_mcp_servers(config): the tool-server specs of one configuration file
load_mcp_servers(fs, config) == fs[config].servers

\* the first loop putting each file's specs in front of those already loaded
RECURSIVE LoadConfigs_reversed(_, _)
LoadConfigs_reversed(fs, configs) ==
  IF configs = <<>> THEN [raised |-> FALSE, servers |-> <<>>]
  ELSE IF ~fs[Head(configs)].ok THEN [raised |-> TRUE, servers |-> <<>>]
  ELSE LET rest == LoadConfigs_reversed(fs, Tail(configs))
       IN  [raised  |-> rest.raised,
            servers |-> IF rest.raised THEN <<>>
                        ELSE rest.servers \o load_mcp_servers(fs, Head(configs))]

\* the first loop of load_mcp_server: final_server += load_mcp_servers(config),
\* in the order of `configs`; a file that cannot be parsed raises
RECURSIVE LoadConfigs(_, _)
LoadConfigs(fs, configs) ==
  IF configs = <<>> THEN [raised |-> FALSE, servers |-> <<>>]
  ELSE IF ~fs[Head(configs)].ok THEN [raised |-> TRUE, servers |-> <<>>]
  ELSE LET rest == LoadConfigs(fs, Tail(configs))
       IN  [raised  |-> rest.raised,
            servers |-> IF rest.raised THEN <<>>
                        ELSE load_mcp_servers(fs, Head(configs)) \o rest.servers]

\* hasattr(i, 'args') and len(i.args) > 1 and i.args[1] == self.filesystem_mcp_name
\* (Python counts from 0: args[1] is the second argument, args[2] the third)
IsFilesystem(i) ==
  /\ "args" \in DOMAIN i
  /\ Len(i.args) > 1
  /\ i.args[2] = filesystem_mcp_name

\* self.workspace_root + f'/workspace_{username}'
current_workspace_of(root, username) == root \o Str("/workspace_") \o Str(username)

\* the second loop with `i.timeout = timeout` inside the if-branch: only the
\* filesystem specs get the timeout
RECURSIVE Isolate_indented(_, _, _, _, _, _)
Isolate_indented(todo, done, d, cw, timeout, fault) ==
  IF todo = <<>> THEN [raised |-> "none", servers |-> done, dirs |-> d]
  ELSE LET i == Head(todo)
       IN  IF IsFilesystem(i)
           THEN IF fault = "workspace_error"
                THEN [raised |-> "workspace_error", servers |-> <<>>, dirs |-> d]
                ELSE IF Len(i.args) < 3
                THEN [raised |-> "index_error", servers |-> <<>>,
                      dirs |-> d \cup {cw}]
                ELSE Isolate_indented(Tail(todo),
                                      Append(done, [i EXCEPT !.args[3] = cw,
                                                             !.timeout = timeout]),
                                      d \cup {cw}, cw, timeout, fault)
           ELSE Isolate_indented(Tail(todo), Append(done, i), d, cw, timeout, fault)

\* the second loop of load_mcp_server, one spec at a time: os.makedirs (which
\* can fail), then the assignment to args[2] (IndexError when the spec has two
\* arguments, the directory being made by then), then the timeout
RECURSIVE Isolate(_, _, _, _, _, _)
Isolate(todo, done, d, cw, timeout, fault) ==
  IF todo = <<>> THEN [raised |-> "none", servers |-> done, dirs |-> d]
  ELSE LET i == Head(todo)
       IN  IF IsFilesystem(i)
           THEN IF fault = "workspace_error"
                THEN [raised |-> "workspace_error", servers |-> <<>>, dirs |-> d]
                ELSE IF Len(i.args) < 3
                THEN [raised |-> "index_error", servers |-> <<>>,
                      dirs |-> d \cup {cw}]
                ELSE Isolate(Tail(todo),
                             Append(done, [i EXCEPT !.args[3] = cw,
                                                    !.timeout = timeout]),
                             d \cup {cw}, cw, timeout, fault)
           ELSE Isolate(Tail(todo), Append(done, [i EXCEPT !.timeout = timeout]),
                        d, cw, timeout, fault)

\* load_mcp_server(self, username, configs, timeout). `env` is what it finds
\* outside the process: the configuration files, the directories on disk, and
\* the fault of this call ("config_error": a file cannot be read just now;
\* "workspace_error": os.makedirs fails). The result: the exception raised, the
\* specs returned and the directories afterwards.
load_mcp_server(M, username, configs, timeout, env) ==
  LET l == LoadConfigs(env.files, configs)
  IN  IF env.fault = "config_error" \/ l.raised
      THEN [raised |-> "config_error", servers |-> <<>>, dirs |-> env.dirs]
      ELSE Isolate(l.servers, <<>>, env.dirs,
                   current_workspace_of(M.workspace_root, username),
                   timeout, env.fault)

\* UserSession(...) taking over the history of the username's previous session
NewSession_inherit(username, agent_config, agent, t) ==
  LET old == {i \in 1..Len(objs) : objs[i].username = username}
  IN  [username        |-> username,
       agent_config    |-> agent_config,
       agent           |-> agent,
       last_active     |-> t,
       is_active       |-> TRUE,
       history_context |-> IF old = {} THEN <<>>
                           ELSE objs[CHOOSE i \in old : \A j \in old : j <= i]
                                  .history_context]

\* UserSession(...) of create_session: a fresh object
NewSession(username, agent_config, agent, t) ==
  [username        |-> username,
   agent_config    |-> agent_config,
   agent           |-> agent,
   last_active     |-> t,
   is_active       |-> TRUE,
   history_context |-> <<>>]

\* the registration replacing the whole map: self.sessions = {username: session}
Register_single(M, username, session) ==
  LET sid == Len(M.objs) + 1
  IN  [M EXCEPT !.sessions = [x \in {username} |-> sid],
                 !.objs = Append(M.objs, session)]

\* self.sessions[username] = session
Register(M, username, session) ==
  LET sid == Len(M.objs) + 1
  IN  [M EXCEPT !.sessions = [x \in DOMAIN M.sessions \cup {username} |->
                                  IF x = username THEN sid ELSE M.sessions[x]],
                 !.objs = Append(M.objs, session)]

\* create_session registering the session before the tools are loaded and the
\* agent is built: a failure leaves the session in the map
create_session_partial(M, username, agent_config, t, load, build) ==
  LET M1 == IF username \in DOMAIN M.sessions THEN close_session(M, username) ELSE M
      M2 == [M1 EXCEPT !.workspace_root = agent_config.workspace_root]
      p  == load_mcp_server(M2, username, agent_config.mcp_configs,
                            ProvisionTimeout, load)
      M3 == Register(M2, username,
                     NewSession(username, agent_config,
                                Agent(Len(M2.objs) + 1, p.servers), t))
      Fail(e, why, d) == [M |-> M3, raised |-> e, cause |-> why, before |-> M2,
                          registered |-> FALSE, dirs |-> d]
  IN  IF agent_config.api_key = "" THEN Fail("ValueError", "config", load.dirs)
      ELSE IF agent_config.model_name = "" THEN Fail("ValueError", "config", load.dirs)
      ELSE IF p.raised # "none" THEN Fail("Exception", p.raised, p.dirs)
      ELSE IF build # "ok" THEN Fail("ValueError", "agent_build", p.dirs)
      ELSE [M |-> M3, raised |-> "none", cause |-> "none", before |-> M2,
            registered |-> TRUE, dirs |-> p.dirs]

\* create_session: the manager afterwards, the exception raised ("none",
\* "ValueError" or "Exception"), the directories on disk afterwards and, when a
\* session was registered, the manager as it was just before the registration.
\*   load  : what load_mcp_server finds outside the process (files, dirs, fault)
\*   build : outcome of _create_agent_for_user ("ok", "fail")
\* self.mcp_configs is written and read back at once, so the list passed to
\* load_mcp_server is agent_config.mcp_configs.
create_session(M, username, agent_config, t, load, build) ==
  LET M1 == IF username \in DOMAIN M.sessions THEN close_session(M, username) ELSE M
      M2 == [M1 EXCEPT !.workspace_root = agent_config.workspace_root]
      p  == load_mcp_server(M2, username, agent_config.mcp_configs,
                            ProvisionTimeout, load)
      Fail(N, e, why, d) == [M |-> N, raised |-> e, cause |-> why, before |-> N,
                             registered |-> FALSE, dirs |-> d]
  IN  IF agent_config.api_key = "" THEN Fail(M1, "ValueError", "config", load.dirs)
      ELSE IF agent_config.model_name = ""
      THEN Fail(M1, "ValueError", "config", load.dirs)
      ELSE IF p.raised # "none" THEN Fail(M2, "Exception", p.raised, p.dirs)
      ELSE IF build # "ok" THEN Fail(M2, "ValueError", "agent_build", p.dirs)
      ELSE [M |-> Register(M2, username,
                           NewSession(username, agent_config,
                                      Agent(Len(M2.objs) + 1, p.servers), t)),
            raised |-> "none", cause |-> "none", before |-> M2,
            registered |-> TRUE, dirs |-> p.dirs]

\* ------------------------------------------------------- LoginValidater
\* validate_login letting every username and password pass
validate_login_open(username, password) == <<TRUE, TRUE>>

validate_login(username, password) ==
  LET rows == {r \in UserLoginRows : r[1] = username}
  IN  IF rows = {} THEN <<FALSE, FALSE>>
      ELSE IF \E r \in rows : r[2] = password THEN <<TRUE, TRUE>>
      ELSE <<TRUE, FALSE>>

\* ------------------------------------------------------------ HTTP handlers
\* what a handler reports; `closed`: it closed a registered session;
\* `registered`: it registered a new one; `mapHadUser` / `activeBefore`: at the
\* moment of registration, whether the username was still a key of the map, and
\* how many objects of that username had the active flag set.
Response(op, username, status, cause, closed, reg, had, act) ==
  [op |-> op, username |-> username, status |-> status, cause |-> cause,
   closed |-> closed, registered |-> reg, mapHadUser |-> had, activeBefore |-> act]

Plain(op, username, status, cause) ==
  Response(op, username, status, cause, FALSE, FALSE, FALSE, 0)

ActiveObjs(o, username) ==
  {i \in 1..Len(o) : o[i].username = username /\ o[i].is_active}

\* POST /login
login(M, username, password, model_name, api_key, system_prompt, t, db, load, build) ==
  IF username = ""
  THEN [M |-> M, dirs |-> load.dirs, resp |-> Plain("login", username, 400, "username")]
  ELSE IF model_name = "" \/ api_key = "" \/ system_prompt = ""
  THEN [M |-> M, dirs |-> load.dirs, resp |-> Plain("login", username, 400, "fields")]
  ELSE IF db # "ok"
  THEN [M |-> M, dirs |-> load.dirs, resp |-> Plain("login", username, 500, "db")]
  ELSE IF ~validate_login(username, password)[1]
  THEN [M |-> M, dirs |-> load.dirs, resp |-> Plain("login", username, 400, "no_user")]
  ELSE IF ~validate_login(username, password)[2]
  THEN [M |-> M, dirs |-> load.dirs, resp |-> Plain("login", username, 400, "bad_password")]
  ELSE
    LET existing_session == get_session(M, username)
        M1 == IF existing_session # None /\ M.objs[existing_session].is_active
              THEN close_session(M, username) ELSE M
        r  == create_session(M1, username,
                             AgentConfig(model_name, api_key, system_prompt,
                                         WorkspaceRoot, mcp_configs_of(username)),
                             t, load, build)
        status == IF r.raised = "none" THEN 200
                  ELSE IF r.raised = "ValueError" THEN 400 ELSE 500
    IN  [M |-> r.M,
         dirs |-> r.dirs,
         resp |-> Response("login", username, status, r.cause,
                           username \in DOMAIN M.sessions,
                           r.registered,
                           r.registered /\ username \in DOMAIN r.before.sessions,
                           IF r.registered
                           THEN Cardinality(ActiveObjs(r.before.objs, username))
                           ELSE 0)]

\* logout with close_session deleting the key without looking it up first:
\* KeyError for an absent username
logout_unguarded(M, username) ==
  IF username \in DOMAIN M.sessions
  THEN [M |-> close_session(M, username),
        resp |-> Plain("logout", username, 200, "none")]
  ELSE [M |-> M, resp |-> Plain("logout", username, 500, "KeyError")]

\* POST /logout/{username}
logout(M, username) ==
  [M |-> close_session(M, username), resp |-> Plain("logout", username, 200, "none")]

\* chat under one lock for all users: a request finds another username's call
\* in the backend and waits
chat_start_serial(M, username, t) ==
  IF \E c \in 1..MaxCalls : calls[c].pc = "backend" /\ calls[c].username # username
  THEN [M |-> M, pc |-> "waiting", sid |-> None, history |-> <<>>,
        resp |-> Plain("chat", username, 0, "waiting")]
  ELSE LET session == get_session(M, username)
       IN  IF session = None
           THEN [M |-> M, pc |-> "notfound", sid |-> None, history |-> <<>>,
                 resp |-> Plain("chat", username, 404, "no_session")]
           ELSE IF M.objs[session].agent = NoAgent
           THEN [M |-> M, pc |-> "failed", sid |-> session, history |-> <<>>,
                 resp |-> Plain("chat", username, 500, "agent_uninit")]
           ELSE [M |-> update_last_active(M, username, t), pc |-> "backend",
                 sid |-> session, history |-> M.objs[session].history_context,
                 resp |-> Plain("chat", username, 0, "awaiting")]

\* POST /chat, up to the await: the session looked up and touched, and the
\* history handed to agent.run
chat_start(M, username, t) ==
  LET session == get_session(M, username)
  IN  IF session = None
      THEN [M |-> M, pc |-> "notfound", sid |-> None, history |-> <<>>,
            resp |-> Plain("chat", username, 404, "no_session")]
      ELSE IF M.objs[session].agent = NoAgent
      THEN [M |-> M, pc |-> "failed", sid |-> session, history |-> <<>>,
            resp |-> Plain("chat", username, 500, "agent_uninit")]
      ELSE [M |-> update_last_active(M, username, t), pc |-> "backend",
            sid |-> session, history |-> M.objs[session].history_context,
            resp |-> Plain("chat", username, 0, "awaiting")]

\* class UserMessage(BaseModel): username: str, message: str. A body without
\* one of the fields never reaches the handler; the empty string is a str.
UserMessage(username, message) == [username |-> username, message |-> message]

\* POST /chat with its request body, up to the await: the handler reads
\* user_message.username; user_message.message is printed and handed to
\* agent.run
chat(M, user_message, t) == chat_start(M, user_message.username, t)

\* the write-back looking the session up again by username: it finds the
\* session registered now, not the one the call started with
chat_return_current(M, call, c) ==
  LET sid == IF call.username \in DOMAIN M.sessions
             THEN M.sessions[call.username] ELSE call.sid
  IN  [M EXCEPT !.objs[sid].history_context = AllMessages(call.history, c)]

\* the write-back putting the call's session back into the map
chat_return_reregister(M, call, c) ==
  [M EXCEPT !.objs[call.sid].history_context = AllMessages(call.history, c),
            !.sessions = [x \in DOMAIN M.sessions \cup {call.username} |->
                            IF x = call.username THEN call.sid ELSE M.sessions[x]]]

\* POST /chat, the await returned: session.history_context = list(result.all_messages())
chat_return(M, call, c) ==
  [M EXCEPT !.objs[call.sid].history_context = AllMessages(call.history, c)]

\* a failure path that stores the request of the failed turn
chat_fail_records(M, call, c) ==
  [M EXCEPT !.objs[call.sid].history_context = Append(call.history, <<c, "user">>)]

\* POST /chat, the await raised: except Exception -> HTTPException(500)
chat_fail(M, call, c) == M

\* GET /users: one UserInfo per entry of agent_manager.sessions
get_active_users(M) ==
  {[username    |-> username,
    model_name  |-> M.objs[M.sessions[username]].agent_config.model_name,
    is_active   |-> M.objs[M.sessions[username]].is_active,
    last_active |-> M.objs[M.sessions[username]].last_active] :
     username \in DOMAIN M.sessions}

\* GET /health: active_users is len(agent_manager.sessions)
health_check(M) ==
  [status |-> "healthy", active_users |-> Cardinality(DOMAIN M.sessions)]

\* ------------------------------------------------------------------- state
IdleCall == [pc |-> "idle", username |-> "", sid |-> None, history |-> <<>>]

\* a request that has been answered: the coroutine and its locals are gone
DoneCall == [pc |-> "done", username |-> "", sid |-> None, history |-> <<>>]

\* the tool-server specs of the configuration files: the filesystem tool as
\* npx starts it, with the root written in the file; a document tool; a tool
\* reached by URL, which has no argument list. A spec loaded from a file has
\* the library's default timeout.
FsTool(args) == [command |-> Str("npx"), args |-> args, timeout |-> 5]

Fs3 == FsTool(<<Str("-y"), filesystem_mcp_name, Str("/data")>>)

WordTool == [command |-> Str("python"), args |-> <<Str("mcp_word_server.py")>>,
             timeout |-> 5]

MapTool == [url |-> Str("https://maps.example/mcp"), timeout |-> 5]

\* the filesystem tool given two roots; given no root; started with the
\* package as first argument (npx without -y)
Fs4 == FsTool(<<Str("-y"), filesystem_mcp_name, Str("/data"), Str("/etc")>>)

Fs2 == FsTool(<<Str("-y"), filesystem_mcp_name>>)

FsFirst == FsTool(<<filesystem_mcp_name, Str("/data")>>)

File(servers) == [ok |-> TRUE, servers |-> servers]

\* a file that load_mcp_servers cannot parse
Malformed == [ok |-> FALSE, servers |-> <<>>]

StdFiles == [c \in ConfigNames |->
               IF c = "base" THEN File(<<Fs3>>)
               ELSE IF c = "office" THEN File(<<WordTool>>)
               ELSE File(<<MapTool>>)]

\* what the configuration files may hold when a login reads them
BaseChoices == {File(<<Fs3, WordTool>>), File(<<Fs4>>), File(<<Fs2>>),
                File(<<FsFirst, MapTool>>), File(<<WordTool>>), Malformed}

OfficeChoices == {File(<<WordTool>>), File(<<Fs3>>)}

FileChoices ==
  {[c \in ConfigNames |->
      IF c = "base" THEN b ELSE IF c = "office" THEN o ELSE File(<<MapTool>>)] :
   b \in BaseChoices, o \in OfficeChoices}

Init ==
  /\ sessions = <<>>
  /\ objs = <<>>
  /\ workspace_root = NoRoot
  /\ dirs = {}
  /\ calls = [c \in 1..MaxCalls |-> IdleCall]
  /\ now = 0
  /\ resp = Plain("start", "", 0, "none")

M0 == Manager(sessions, objs, workspace_root)

\* the /login request of user u with fault f, and the state of the services
PasswordOf(u) == (CHOOSE r \in UserLoginRows : r[1] = u)[2]

LoginRequest(u, f) ==
  [username      |-> IF f = "no_username" THEN ""
                     ELSE IF f = "unknown_user" THEN "mallory" ELSE u,
   password      |-> IF f = "bad_password" THEN "wrong" ELSE PasswordOf(u),
   model_name    |-> IF f = "no_model" THEN "" ELSE "deepseek-chat",
   api_key       |-> IF f = "no_key" THEN "" ELSE "sk-1",
   system_prompt |-> IF f = "no_prompt" THEN "" ELSE "be kind",
   db            |-> IF f = "db" THEN "fail" ELSE "ok",
   load          |-> IF f \in {"config_error", "workspace_error"} THEN f ELSE "ok",
   build         |-> IF f = "build" THEN "fail" ELSE "ok"]

\* A request that leaves the manager as it is (a rejected login, the logout of
\* an absent username, a sweep that closes nothing) is a stuttering step: resp
\* keeps the answer to the last request that changed something.
Answer(M, r) == IF M = M0 THEN resp ELSE r

\* `fs`: the toolset configuration files as they are on disk at this login.
\* (\E r \in {e} binds r to the value of e, computed once.)
Login(q, fs) ==
  /\ Len(objs) < MaxSessions
  /\ \E r \in {login(M0, q.username, q.password, q.model_name, q.api_key,
                     q.system_prompt, now, q.db,
                     [files |-> fs, dirs |-> dirs, fault |-> q.load], q.build)} :
         /\ sessions' = r.M.sessions
         /\ objs' = r.M.objs
         /\ workspace_root' = r.M.workspace_root
         /\ dirs' = r.dirs
         /\ resp' = IF r.dirs = dirs THEN Answer(r.M, r.resp) ELSE r.resp
  /\ UNCHANGED <<calls, now>>

Logout(username) ==
  /\ \E r \in {logout(M0, username)} :
         /\ sessions' = r.M.sessions
         /\ objs' = r.M.objs
         /\ resp' = Answer(r.M, r.resp)
  /\ UNCHANGED <<workspace_root, dirs, calls, now>>

\* the request a client sends: `origin` is the session that client was given
\* at its own login (None: it never logged in); the request carries the
\* username only, so the handler never sees `origin`.
ChatStart(c, username, origin) ==
  /\ calls[c].pc = "idle"
  /\ \A d \in 1..(c - 1) : calls[d].pc # "idle"
  /\ origin = None \/ (origin \in 1..Len(objs) /\ objs[origin].username = username)
  /\ \E r \in {chat(M0, UserMessage(username, message), now) : message \in Messages} :
         /\ sessions' = r.M.sessions
         /\ objs' = r.M.objs
         /\ resp' = r.resp
         /\ calls' = [calls EXCEPT ![c] =
                        IF r.pc = "backend"
                        THEN [pc |-> r.pc, username |-> username,
                              sid |-> r.sid, history |-> r.history]
                        ELSE DoneCall]
  /\ UNCHANGED <<workspace_root, dirs, now>>

ChatReturn(c) ==
  /\ calls[c].pc = "backend"
  /\ LET M == chat_return(M0, calls[c], c)
     IN  /\ sessions' = M.sessions
         /\ objs' = M.objs
  /\ calls' = [calls EXCEPT ![c] = DoneCall]
  /\ resp' = Plain("chat", calls[c].username, 200, "none")
  /\ UNCHANGED <<workspace_root, dirs, now>>

ChatFail(c) ==
  /\ calls[c].pc = "backend"
  /\ LET M == chat_fail(M0, calls[c], c)
     IN  /\ sessions' = M.sessions
         /\ objs' = M.objs
  /\ calls' = [calls EXCEPT ![c] = DoneCall]
  /\ resp' = Plain("chat", calls[c].username, 500, "backend")
  /\ UNCHANGED <<workspace_root, dirs, now>>

\* one iteration of cleanup_task: the sleep is over and the sweep runs. The
\* first sleep ends SweepPeriod after the start; the clock advances by more than
\* SweepPeriod at a time, so a later sleep is over at the next clock value, and
\* a second sweep at the same clock value finds nothing more to close.
Sweep ==
  /\ now >= SweepPeriod
  /\ \E M \in {cleanup_inactive_sessions(M0, CleanupTimeout, now)} :
         /\ sessions' = M.sessions
         /\ objs' = M.objs
         /\ resp' = Answer(M, Response("sweep", "", 0, "none", TRUE, FALSE, FALSE, 0))
  /\ UNCHANGED <<workspace_root, dirs, calls, now>>

Tick ==
  /\ now + TickStep <= MaxTime
  /\ now' = now + TickStep
  /\ resp' = Plain("tick", "", 0, "none")
  /\ UNCHANGED <<sessions, objs, workspace_root, dirs, calls>>

Next ==
  \/ \E u \in Users, f \in LoginFaults : Login(LoginRequest(u, f), StdFiles)
  \/ \E username \in NameInputs : Logout(username)
  \/ \E c \in 1..MaxCalls, username \in NameInputs, origin \in 0..MaxSessions :
       ChatStart(c, username, origin)
  \/ \E c \in 1..MaxCalls : ChatReturn(c)
  \/ \E c \in 1..MaxCalls : ChatFail(c)
  \/ Sweep
  \/ Tick

Spec == Init /\ [][Next]_vars

\* ------------------------------------------------- the reaper on its period
\* The same server with time counted in sweep periods. One iteration of
\* cleanup_task is one step: `await asyncio.sleep(300)` ends SweepPeriod after
\* it began, and the sweep runs at once, no handler being in the middle of a
\* step. Requests are served between two iterations and read the clock of the
\* last one (a stamp rounded down to the period is evicted by the same sweep
\* as the exact stamp, the comparison being strict). The reaper reads
\* last_active only, which a login sets like a chat request does: the requests
\* here are logins and logouts at every instant of the grid.
CleanupIteration ==
  /\ now + SweepPeriod <= MaxSweeps * SweepPeriod
  /\ now' = now + SweepPeriod
  /\ \E M \in {cleanup_inactive_sessions(M0, CleanupTimeout, now + SweepPeriod)} :
         /\ sessions' = M.sessions
         /\ objs' = M.objs
         /\ resp' = IF M = M0 THEN Plain("sleep", "", 0, "none")
                    ELSE Response("sweep", "", 0, "none", TRUE, FALSE, FALSE, 0)
  /\ UNCHANGED <<workspace_root, dirs, calls>>

ReaperNext ==
  \/ \E u \in Users, f \in LoginFaults : Login(LoginRequest(u, f), StdFiles)
  \/ \E username \in NameInputs : Logout(username)
  \/ CleanupIteration

\* the event loop runs the reaper task whenever its sleep is over
ReaperSpec == Init /\ [][ReaperNext]_vars /\ WF_vars(CleanupIteration)

\* ------------------------------------------------------- tool provisioning
\* The logins and logouts of the server, each login finding the configuration
\* files with any of the contents of FileChoices.
ProvNext ==
  \/ \E u \in Users, f \in LoginFaults, fs \in FileChoices :
       Login(LoginRequest(u, f), fs)
  \/ \E username \in NameInputs : Logout(username)

ProvSpec == Init /\ [][ProvNext]_vars

\* =================================================================== claims
CallIds == 1..MaxCalls

InBackend(u) == {c \in CallIds : calls[c].pc = "backend" /\ calls[c].username = u}

IsPrefix(a, b) == Len(a) <= Len(b) /\ SubSeq(b, 1, Len(a)) = a

GoodConfig(u) ==
  AgentConfig("deepseek-chat", "sk-1", "be kind", WorkspaceRoot, mcp_configs_of(u))

\* what load_mcp_server finds outside the process, with fault f
Env(f) == [files |-> StdFiles, dirs |-> dirs, fault |-> f]

CreateFailures == {"config", "config_error", "workspace_error", "index_error",
                   "agent_build"}

\* the faults of a request that make create_session itself fail
CreateFaults == {"no_model", "no_key", "config_error", "workspace_error", "build"}

\* C1: per-username mutual exclusion of chat turns. In every reachable state,
\* for each username at most one chat call is between its read of the history
\* (the start of the backend call) and its write-back. The code takes no lock:
\* TLC finds two calls of one username in the backend phase.
C1_MutualExclusion ==
  \A u \in Users : Cardinality(InBackend(u)) <= 1

\* C2: no lost update. Every chat call that succeeds adds its turn to what
\* the session's history holds at that moment: the history grows by the
\* records of one turn and keeps every record it held, so N successful calls
\* leave N turns. The code writes back the history read at the call's start
\* plus its own turn, and so drops a turn written in between.
C2_NoLostUpdate ==
  [][\A c \in CallIds :
       ChatReturn(c) =>
         LET h  == objs[calls[c].sid].history_context
             h2 == objs'[calls[c].sid].history_context
         IN  /\ Len(h2) = Len(h) + Len(TurnRecords(c))
             /\ \A i \in 1..Len(h) : \E j \in 1..Len(h2) : h2[j] = h[i]
             /\ SubSeq(h2, Len(h2) - 1, Len(h2)) = TurnRecords(c)]_vars

\* C3: at most one active session per username. For every username the objects
\* of that username whose active flag is set are exactly the one session the
\* store holds for it (none when the store holds none), closed sessions still
\* referenced by in-flight chat calls included.
C3_AtMostOneActive ==
  \A u \in Users :
    /\ ActiveObjs(objs, u) = (IF u \in DOMAIN sessions THEN {sessions[u]} ELSE {})
    /\ u \in DOMAIN sessions => objs[sessions[u]].username = u

\* C3 witness: a username has a registered active session while a closed
\* session of the same username is still held by a chat call in the backend.
C3_Witness ==
  \E u \in Users, c \in CallIds :
    /\ u \in DOMAIN sessions
    /\ calls[c].pc = "backend"
    /\ calls[c].username = u
    /\ calls[c].sid # sessions[u]
    /\ ~objs[calls[c].sid].is_active
    /\ objs[sessions[u]].is_active

\* C4: right after a login that replaced an active session, a chat call sent
\* by the client of the displaced session (origin: the closed session) fails
\* with SessionNotFound. The request carries the username only, so the code
\* dispatches it to the replacing session.
C4_DisplacedChatFails ==
  [][\A c \in CallIds, u \in Users, o \in 1..MaxSessions :
       ( /\ resp.op = "login" /\ resp.status = 200 /\ resp.closed
         /\ resp.username = u
         /\ ChatStart(c, u, o)
         /\ ~objs[o].is_active )
       => (calls'[c].pc = "done" /\ resp'.status = 404)]_vars

\* C5: session creation is all-or-nothing. After a login that failed inside
\* create_session (configuration validation, tool-spec loading, workspace
\* creation, agent building) the username has no session in the store; and in
\* every reachable state, create_session failing for any of these reasons
\* leaves the username absent, whether or not it was registered before.
C5_AllOrNothing ==
  /\ (resp.op = "login" /\ resp.cause \in CreateFailures) =>
        (resp.status # 200 /\ resp.username \notin DOMAIN sessions)
  /\ \A u \in Users, f \in CreateFaults :
        LET q == LoginRequest(u, f)
            r == create_session(M0, u,
                                AgentConfig(q.model_name, q.api_key, q.system_prompt,
                                            WorkspaceRoot, mcp_configs_of(u)),
                                now, Env(q.load), q.build)
        IN  /\ r.raised # "none"
            /\ u \notin DOMAIN r.M.sessions
            /\ Len(r.M.objs) = Len(objs)

\* C5 witness: a login just failed in create_session after closing the session
\* the username had, and the username is absent from the store.
C5_Witness ==
  /\ resp.op = "login"
  /\ resp.cause \in CreateFailures
  /\ resp.closed
  /\ resp.username \notin DOMAIN sessions

\* C6: a chat call whose backend invocation fails reports status 500 and
\* changes nothing in the manager: history, registration and active flag are
\* as they were, the last-activity stamp is the one the call set when it
\* started, and the next chat call of the username is dispatched to the same
\* session with that history.
C6_FailedChatKeepsHistory ==
  /\ \A c \in CallIds :
       calls[c].pc = "backend" =>
         LET M == chat_fail(M0, calls[c], c)
             u == calls[c].username
         IN  /\ M.sessions = sessions
             /\ M.objs = objs
             /\ (u \in DOMAIN sessions /\ sessions[u] = calls[c].sid) =>
                   LET n == chat_start(M, u, now)
                   IN  /\ n.pc = "backend"
                       /\ n.sid = calls[c].sid
                       /\ n.history = objs[calls[c].sid].history_context
  /\ (resp.op = "chat" /\ resp.cause = "awaiting") =>
        /\ resp.username \in DOMAIN sessions
        /\ objs[sessions[resp.username]].last_active = now
  /\ (resp.op = "chat" /\ resp.cause = "backend") => resp.status = 500

\* C6 witness: a chat call has just failed in the backend; the only session
\* its username ever had is registered and active, holds an earlier turn and
\* was touched after its creation.
C6_Witness ==
  /\ resp.op = "chat" /\ resp.status = 500 /\ resp.cause = "backend"
  /\ resp.username \in DOMAIN sessions
  /\ Cardinality({i \in 1..Len(objs) : objs[i].username = resp.username}) = 1
  /\ objs[sessions[resp.username]].is_active
  /\ objs[sessions[resp.username]].history_context # <<>>
  /\ objs[sessions[resp.username]].last_active > 0

\* C7: the history is append-only. Whenever the history of a session that
\* stays registered changes, the previous history is a prefix of the new one.
\* With two calls of one username in the backend at once (C1), the second
\* write-back replaces the first turn instead of extending it.
C7_AppendOnly ==
  [][\A u \in Users :
       (u \in DOMAIN sessions /\ u \in DOMAIN sessions' /\ sessions'[u] = sessions[u])
       => IsPrefix(objs[sessions[u]].history_context,
                   objs'[sessions[u]].history_context)]_vars

\* C8: reapIdle(T) removes exactly the sessions with now - last-activity > T.
\* In every reachable state the sweep's result holds exactly the usernames
\* whose idle time is at most T, each with its session unchanged, and a chat
\* call for a reaped username is answered 404.
C8_ReapExactlyIdle ==
  LET M == cleanup_inactive_sessions(M0, CleanupTimeout, now)
      keep == {u \in DOMAIN sessions :
                 now - objs[sessions[u]].last_active <= CleanupTimeout}
  IN  /\ DOMAIN M.sessions = keep
      /\ \A u \in keep : /\ M.sessions[u] = sessions[u]
                         /\ M.objs[sessions[u]] = objs[sessions[u]]
      /\ \A u \in DOMAIN sessions \ keep :
           /\ ~M.objs[sessions[u]].is_active
           /\ chat_start(M, u, now).pc = "notfound"
           /\ chat_start(M, u, now).resp.status = 404

\* C8 witness: a sweep has just evicted a session, and kept one that is idle
\* for exactly the threshold.
C8_Witness ==
  /\ resp.op = "sweep"
  /\ resp.closed
  /\ \E u \in DOMAIN sessions :
       now - objs[sessions[u]].last_active = CleanupTimeout
  /\ \E i \in 1..Len(objs) :
       /\ ~objs[i].is_active
       /\ now - objs[i].last_active > CleanupTimeout

\* C9: after a logout or an idle eviction of a username, and until the next
\* successful login for it, every chat call for it is answered 404 without a
\* backend call and without a change of state. In every reachable state a
\* logout and an eviction leave the username absent, and a chat call for an
\* absent username is answered 404 and leaves the manager as it is; and the
\* only step that makes an absent username present is a login for it answered
\* 200.
C9_AbsentIsNotFound ==
  LET swept == cleanup_inactive_sessions(M0, CleanupTimeout, now)
  IN  /\ \A u \in NameInputs : u \notin DOMAIN logout(M0, u).M.sessions
      /\ \A u \in DOMAIN sessions :
           IsIdle(objs[sessions[u]].last_active, now, CleanupTimeout) =>
             u \notin DOMAIN swept.sessions
      /\ \A u \in NameInputs \ DOMAIN sessions :
           LET n == chat_start(M0, u, now)
           IN  /\ n.pc = "notfound"
               /\ n.resp.status = 404
               /\ n.M = M0

C9_ClosedMeansNotFound ==
  /\ []C9_AbsentIsNotFound
  /\ [][\A u \in Users :
         (u \notin DOMAIN sessions /\ u \in DOMAIN sessions') =>
           (resp'.op = "login" /\ resp'.status = 200 /\ resp'.username = u)]_vars

\* C9 witness: a chat call for a username that had a session, since closed,
\* has just been answered 404.
C9_Witness ==
  /\ resp.op = "chat" /\ resp.status = 404
  /\ resp.username \notin DOMAIN sessions
  /\ \E i \in 1..Len(objs) : objs[i].username = resp.username

\* C10: replacement ordering. When a login registers a session, the username
\* is no key of the map and no object of that username is active at the moment
\* of registration; create_session called on any reachable manager closes the
\* registered session before it registers; and no two keys of the store lead
\* to sessions of one username.
C10_CloseBeforeRegister ==
  /\ resp.registered => (~resp.mapHadUser /\ resp.activeBefore = 0)
  /\ \A u \in Users :
       LET r == create_session(M0, u, GoodConfig(u), now, Env("ok"), "ok")
       IN  /\ r.registered
           /\ u \notin DOMAIN r.before.sessions
           /\ ActiveObjs(r.before.objs, u) = {}
           /\ ActiveObjs(r.M.objs, u) = {r.M.sessions[u]}
  /\ \A u \in Users :
       Cardinality({v \in DOMAIN sessions : objs[sessions[v]].username = u}) <= 1

\* C10 witness: a login has just replaced a registered session.
C10_Witness ==
  /\ resp.op = "login"
  /\ resp.status = 200
  /\ resp.registered
  /\ resp.closed
  /\ \E i \in 1..Len(objs) :
       /\ objs[i].username = resp.username
       /\ ~objs[i].is_active
       /\ sessions[resp.username] # i

\* what C11 says of one state
C11_Independent ==
  \A c \in CallIds :
    calls[c].pc = "backend" =>
      \A B \in Users \ {calls[c].username} :
        /\ B \in DOMAIN sessions =>
              LET n == chat_start(M0, B, now)
              IN  /\ n.pc = "backend"
                  /\ n.sid = sessions[B]
                  /\ n.M.objs[calls[c].sid] = objs[calls[c].sid]
        /\ \A d \in InBackend(B) :
              LET M == chat_return(M0, calls[d], d)
              IN  /\ ENABLED ChatReturn(d)
                  /\ M.objs[calls[d].sid].history_context =
                        AllMessages(calls[d].history, d)
                  /\ M.objs[calls[c].sid] = objs[calls[c].sid]

\* C11: cross-username independence. Whenever a chat call of username A is
\* suspended in its backend call, a chat request for any other registered
\* username B is dispatched to B's session and enters the backend at once, and
\* every call of B already in the backend can return: its completion is
\* enabled, writes B's turn into B's session and leaves every other session as
\* it is. No chat step has a guard on another username's call.
C11_CrossUserIndependence == []C11_Independent

\* C11 witness: the first chat call is still suspended in the backend, and the
\* second call, started after it for another username, has completed with 200.
C11_Witness ==
  /\ calls[1].pc = "backend"
  /\ calls[2].pc = "done"
  /\ \A c \in CallIds \ {1, 2} : calls[c].pc = "idle"
  /\ resp.op = "chat" /\ resp.status = 200
  /\ resp.username \in (Users \cap DOMAIN sessions) \ {calls[1].username}
  /\ objs[sessions[resp.username]].history_context = TurnRecords(2)

\* what C12 says of one state
C12_Idempotent ==
  \A u \in NameInputs :
    LET once == close_session(M0, u)
    IN  /\ u \notin DOMAIN once.sessions
        /\ u \notin DOMAIN sessions => once = M0
        /\ close_session(once, u) = once
        /\ logout(M0, u).resp.status = 200
        /\ logout(once, u).resp.status = 200
        /\ logout(once, u).M = once

\* C12: close(username) is idempotent. In every reachable state and for every
\* username: closing leaves the username absent; closing an absent username
\* leaves the manager as it is; closing twice gives the manager that closing
\* once gives; and /logout answers 200 whether or not the username is
\* registered, also when repeated.
C12_CloseIdempotent == []C12_Idempotent

\* C12 witness: a logout has just closed a registered session, so the next
\* close of that username is the close of an already closed one.
C12_Witness ==
  /\ resp.op = "logout" /\ resp.status = 200
  /\ resp.username \notin DOMAIN sessions
  /\ \E i \in 1..Len(objs) : objs[i].username = resp.username /\ ~objs[i].is_active

\* C13: last-activity is monotone. The clock never goes back, and in every
\* step in which a username keeps its registered, active session, that
\* session's last-activity stamp does not decrease, whatever the step is (a
\* chat call starting, returning or failing, a sweep, a login or logout of
\* another username, the clock advancing).
C13_LastActiveMonotone ==
  [][/\ now' >= now
     /\ \A u \in Users :
          ( /\ u \in DOMAIN sessions /\ u \in DOMAIN sessions'
            /\ sessions'[u] = sessions[u]
            /\ objs[sessions[u]].is_active /\ objs'[sessions[u]].is_active )
          => /\ objs'[sessions[u]].last_active >= objs[sessions[u]].last_active
             /\ objs'[sessions[u]].last_active <= now']_vars

\* C13 witness: the first session is registered and active with a stamp later
\* than the start, while the second session, created after it, still carries
\* the stamp of the start: the first session's stamp has grown since its
\* creation.
C13_Witness ==
  /\ Len(objs) >= 2
  /\ objs[2].last_active = 0
  /\ objs[1].last_active > 0
  /\ objs[1].is_active
  /\ objs[1].username \in DOMAIN sessions
  /\ sessions[objs[1].username] = 1

\* what C14 says of one state
C14_Fresh ==
  /\ resp.registered =>
        LET s == objs[sessions[resp.username]]
        IN  /\ s.history_context = <<>>
            /\ s.is_active
            /\ s.last_active = now
            /\ s.username = resp.username
  /\ \A u \in Users :
        LET r == create_session(M0, u, GoodConfig(u), now, Env("ok"), "ok")
            s == r.M.objs[r.M.sessions[u]]
        IN  /\ r.registered
            /\ r.M.sessions[u] = Len(objs) + 1
            /\ s.history_context = <<>>
            /\ s.is_active
            /\ s.last_active = now

\* C14: a created session is fresh. The session a successful login has just
\* registered has an empty history, the active flag set and the time of the
\* login as last-activity; and in every reachable state create_session
\* succeeding for any username registers a new object with these values,
\* whatever history the session it replaces holds.
C14_CreatedFresh == []C14_Fresh

\* C14 witness: a login has just replaced a session that holds a turn.
C14_Witness ==
  /\ resp.op = "login" /\ resp.registered /\ resp.closed
  /\ \E i \in 1..Len(objs) :
       /\ objs[i].username = resp.username
       /\ ~objs[i].is_active
       /\ objs[i].history_context # <<>>

\* what C15 says of one state
C15_Frame ==
  \A u \in NameInputs :
    LET M == update_last_active(M0, u, now)
    IN  /\ M.sessions = sessions
        /\ M.workspace_root = workspace_root
        /\ Len(M.objs) = Len(objs)
        /\ u \notin DOMAIN sessions => M = M0
        /\ u \in DOMAIN sessions =>
              \A i \in 1..Len(objs) :
                M.objs[i] = IF i = sessions[u]
                            THEN [objs[i] EXCEPT !.last_active = now]
                            ELSE objs[i]
        /\ get_session(M0, u) = (IF u \in DOMAIN sessions THEN sessions[u] ELSE None)
        /\ chat_start(M0, u, now).M = M

\* C15: get and touch change nothing else. In every reachable state and for
\* every username: touching an absent username leaves the manager as it is;
\* touching a present one leaves the map, every other session object and all
\* fields of the touched session but last-activity unchanged; and the lookup
\* changes nothing: a chat request, which looks the session up and touches it,
\* leaves exactly the manager that the touch alone leaves.
C15_GetTouchFrame == []C15_Frame

\* C15 witness: a chat request has just touched the session of one username
\* while another registered session carries an older stamp.
C15_Witness ==
  /\ resp.op = "chat" /\ resp.cause = "awaiting"
  /\ resp.username \in DOMAIN sessions
  /\ objs[sessions[resp.username]].last_active = now
  /\ \E v \in DOMAIN sessions \ {resp.username} :
       objs[sessions[v]].last_active < now

\* what C17 says of one state
C17_NotHeldUp ==
  (\E c \in CallIds : calls[c].pc = "backend") =>
    /\ \A u \in Users :
         /\ ENABLED Logout(u)
         /\ u \notin DOMAIN logout(M0, u).M.sessions
         /\ logout(M0, u).resp.status = 200
         /\ LET q == LoginRequest(u, "none")
                r == login(M0, q.username, q.password, q.model_name, q.api_key,
                           q.system_prompt, now, q.db, Env(q.load), q.build)
            IN  /\ r.resp.status = 200
                /\ r.resp.registered
                /\ r.M.sessions[u] = Len(objs) + 1
    /\ LET S == cleanup_inactive_sessions(M0, CleanupTimeout, now)
       IN  \A v \in DOMAIN sessions :
             IsIdle(objs[sessions[v]].last_active, now, CleanupTimeout) =>
               (v \notin DOMAIN S.sessions /\ ~S.objs[sessions[v]].is_active)

\* C17: the session map is never held up by a backend call. Whenever a chat
\* call is suspended in the backend, for every username, the chatting one
\* included: a logout is enabled and removes the username at once; a valid
\* login registers a new session at once; and a sweep removes every session
\* that is idle beyond the threshold, a session with a call in the backend
\* included.
C17_MapNeverHeldUp == []C17_NotHeldUp

\* C17 witness: a logout has just closed the session of a username while a
\* chat call of that username is suspended in the backend on that session.
C17_Witness ==
  /\ resp.op = "logout"
  /\ \E c \in CallIds :
       /\ calls[c].pc = "backend"
       /\ calls[c].username = resp.username
       /\ ~objs[calls[c].sid].is_active
       /\ resp.username \notin DOMAIN sessions

\* C16: idle eviction happens, and in time. With the reaper task running on
\* its period: no registered session is ever left with an idle time above the
\* threshold once a sweep instant has passed (the first sweep at which its
\* idle time exceeds the threshold, less than one period after it did so,
\* removes it); and a session that is registered with last-activity t, if no
\* chat call, login or logout changes that, is eventually removed, for every
\* t that leaves the clock room for the threshold and one period.
C16_NoIdleBeyondThreshold ==
  \A u \in DOMAIN sessions : now - objs[sessions[u]].last_active <= CleanupTimeout

C16_IdleEviction ==
  /\ []C16_NoIdleBeyondThreshold
  /\ \A i \in 1..MaxSessions :
       \A k \in 0..(MaxSweeps - (CleanupTimeout \div SweepPeriod) - 1) :
         ( /\ i <= Len(objs) /\ objs[i].is_active
           /\ objs[i].last_active = k * SweepPeriod )
         ~> ~( /\ i <= Len(objs) /\ objs[i].is_active
               /\ objs[i].last_active = k * SweepPeriod )

\* C16 witness: the sweep has just removed a session, at the first sweep
\* instant at which its idle time exceeded the threshold.
C16_Witness ==
  /\ resp.op = "sweep"
  /\ \E i \in 1..Len(objs) :
       /\ ~objs[i].is_active
       /\ objs[i].username \notin DOMAIN sessions
       /\ now - objs[i].last_active = CleanupTimeout + SweepPeriod

\* a spec whose command descriptor names the filesystem package, and the roots
\* it is started with: the argument that follows the package name
NamesFilesystem(i) ==
  /\ "args" \in DOMAIN i
  /\ \E k \in 1..Len(i.args) : i.args[k] = filesystem_mcp_name

RootsOf(i) ==
  IF "args" \in DOMAIN i
  THEN {i.args[k + 1] : k \in {j \in 1..(Len(i.args) - 1) :
                                  i.args[j] = filesystem_mcp_name}}
  ELSE {}

ToolsOf(u) == objs[sessions[u]].agent.toolsets

\* C18: the filesystem tool's root is rewritten. After a login that has just
\* registered a session for username u (its provisioning succeeded), every
\* spec of the session's toolset that names the filesystem package has one
\* root, {workspace_root}/workspace_{u}, whatever the number and position of
\* its arguments; none keeps the root of the configuration file. The code
\* looks for the package name in the second argument only and writes the third
\* argument: a spec with the package as first argument is passed on with the
\* root of the file (and one with the package as second and last argument
\* makes provisioning raise IndexError).
C18_RootRewritten ==
  resp.registered =>
    \A j \in 1..Len(ToolsOf(resp.username)) :
      LET i == ToolsOf(resp.username)[j]
      IN  NamesFilesystem(i) =>
            RootsOf(i) = {current_workspace_of(WorkspaceRoot, resp.username)}

\* C19: tenant isolation of the filesystem roots. In every reachable state the
\* roots of the filesystem tools of a registered session are the sandbox path
\* of its own username and nothing else (not another user's sandbox, not the
\* workspace root), and two registered sessions of distinct usernames have no
\* root in common. It fails through C18 only: a filesystem spec the code does
\* not recognize keeps the root of the file, the same for every user.
C19_TenantIsolation ==
  LET Roots(u) == UNION {RootsOf(ToolsOf(u)[j]) : j \in 1..Len(ToolsOf(u))}
  IN  /\ \A u \in DOMAIN sessions :
           /\ Roots(u) \subseteq {current_workspace_of(WorkspaceRoot, u)}
           /\ WorkspaceRoot \notin Roots(u)
      /\ \A u, v \in DOMAIN sessions : u # v => Roots(u) \cap Roots(v) = {}

\* C20: the sandbox directory exists after provisioning. In every reachable
\* state, for every registered session (its provisioning succeeded) the
\* directory {root}/workspace_{u} exists, whatever the toolset. The code makes
\* the directory only on meeting a filesystem spec it recognizes: with a
\* toolset that holds none the login succeeds and no directory is made.
C20_SandboxExists ==
  \A u \in DOMAIN sessions : current_workspace_of(WorkspaceRoot, u) \in dirs

\* ------------------------------------------------ the provisioned tool list
\* the lists of configuration sources a caller may hand to load_mcp_server
ConfigLists == {<<>>, <<"base">>, <<"base", "office">>, <<"office", "base">>,
                <<"base", "office", "map">>, <<"base", "base">>}

\* the manager once create_session has written its workspace_root
Rooted == [M0 EXCEPT !.workspace_root = WorkspaceRoot]

\* the number of specs the first k sources of `configs` hold
RECURSIVE SumLen(_, _, _)
SumLen(fs, configs, k) ==
  IF k = 0 THEN 0
  ELSE SumLen(fs, configs, k - 1) + Len(fs[configs[k]].servers)

\* spec `a` is spec `b` of a configuration file, provisioned: the same fields
\* with the same values, but for the timeout and the root argument
SameTool(a, b) ==
  /\ DOMAIN a = DOMAIN b
  /\ \A f \in DOMAIN a \ {"args", "timeout"} : a[f] = b[f]
  /\ "args" \in DOMAIN a =>
        /\ Len(a.args) = Len(b.args)
        /\ \A k \in 1..Len(a.args) : k # 3 => a.args[k] = b.args[k]

\* `servers` is the concatenation, in the order of `configs`, of the specs of
\* the files: the j-th spec of the s-th source stands at the place given by
\* the lengths of the sources before it
IsConcatenation(servers, fs, configs) ==
  /\ Len(servers) = SumLen(fs, configs, Len(configs))
  /\ \A s \in 1..Len(configs) :
       \A j \in 1..Len(fs[configs[s]].servers) :
         SameTool(servers[SumLen(fs, configs, s - 1) + j], fs[configs[s]].servers[j])

\* C21: the provisioned tool list is the concatenation, in source order, of
\* the specs loaded from each configuration source. In every reachable state,
\* for every content of the files and every list of sources, provisioning
\* that succeeds returns a list whose length is the sum of the lengths of the
\* sources, with the j-th spec of the s-th source at place (lengths of the
\* sources before s) + j: later sources after earlier ones, the order within
\* a source kept, duplicates kept. And the toolset of the session a login has
\* just registered is such a concatenation of its two sources.
C21_Concatenation ==
  /\ \A fs \in FileChoices, u \in Users, configs \in ConfigLists :
       LET p == load_mcp_server(Rooted, u, configs, ProvisionTimeout,
                                [files |-> fs, dirs |-> dirs, fault |-> "none"])
       IN  p.raised = "none" => IsConcatenation(p.servers, fs, configs)
  /\ resp.registered =>
       \E fs \in FileChoices :
         IsConcatenation(ToolsOf(resp.username), fs, mcp_configs_of(resp.username))

\* C21 witness: a login has just registered a session whose toolset holds
\* three specs, the same spec twice, at the last place of the first source
\* and again as the second source.
C21_Witness ==
  /\ resp.op = "login" /\ resp.registered
  /\ Len(ToolsOf(resp.username)) = Len(<<Fs3, WordTool>>) + Len(<<WordTool>>)
  /\ ToolsOf(resp.username)[2] = ToolsOf(resp.username)[3]
  /\ ToolsOf(resp.username)[1] # ToolsOf(resp.username)[2]

\* C22: provisioning stamps one timeout on every spec and changes nothing
\* else of the others. In every reachable state, for every content of the
\* files and every list of sources, provisioning that succeeds returns specs
\* that all carry the timeout it was called with, and each spec that the
\* filesystem test does not select (the specs that do not name the filesystem
\* package among them) is the spec loaded from the file with that timeout and
\* no other change: the same command or url, the same argument list. Every
\* tool of a registered session carries the timeout create_session passes.
C22_TimeoutOnly ==
  /\ \A fs \in FileChoices, u \in Users, configs \in ConfigLists :
       LET l == LoadConfigs(fs, configs)
           p == load_mcp_server(Rooted, u, configs, ProvisionTimeout,
                                [files |-> fs, dirs |-> dirs, fault |-> "none"])
       IN  p.raised = "none" =>
             /\ Len(p.servers) = Len(l.servers)
             /\ \A k \in 1..Len(p.servers) :
                  /\ p.servers[k].timeout = ProvisionTimeout
                  /\ ~IsFilesystem(l.servers[k]) =>
                        p.servers[k] = [l.servers[k] EXCEPT !.timeout = ProvisionTimeout]
  /\ \A u \in DOMAIN sessions :
       \A k \in 1..Len(ToolsOf(u)) : ToolsOf(u)[k].timeout = ProvisionTimeout

\* C22 witness: a login has just registered a session whose toolset holds the
\* document tool and the tool reached by URL, each as in its file but for the
\* timeout, next to a spec that names the filesystem package.
C22_Witness ==
  /\ resp.op = "login" /\ resp.registered
  /\ \E k \in 1..Len(ToolsOf(resp.username)) :
       ToolsOf(resp.username)[k] = [WordTool EXCEPT !.timeout = ProvisionTimeout]
  /\ \E k \in 1..Len(ToolsOf(resp.username)) :
       ToolsOf(resp.username)[k] = [MapTool EXCEPT !.timeout = ProvisionTimeout]
  /\ \E k \in 1..Len(ToolsOf(resp.username)) :
       NamesFilesystem(ToolsOf(resp.username)[k])

\* what /login reports for a failure of the session build, and for a request
\* it rejects
BuildCauses == {"config_error", "workspace_error", "index_error", "agent_build"}

RejectCauses == {"username", "fields", "no_user", "bad_password"}

\* C23: on /login a session-build failure (the tool specs cannot be loaded,
\* the agent cannot be built) is reported with status 500, and status 400 is
\* returned only for a missing field or a failed authentication; in both cases
\* no session is registered. The code wraps a failure of the agent build in a
\* ValueError, which /login reports with status 400.
C23_BuildFailureIs500 ==
  /\ (resp.op = "login" /\ resp.cause \in BuildCauses) =>
        (resp.status = 500 /\ ~resp.registered /\ resp.username \notin DOMAIN sessions)
  /\ (resp.op = "login" /\ resp.status = 400) =>
        (resp.cause \in RejectCauses /\ ~resp.registered)

\* the faults for which /login rejects the request: a missing or empty field,
\* an unknown username, a wrong password
RejectFaults == {"no_username", "no_model", "no_key", "no_prompt",
                 "unknown_user", "bad_password"}

\* what C24 says of one state
C24_Rejected ==
  \A u \in Users, f \in RejectFaults :
    LET q == LoginRequest(u, f)
        r == login(M0, q.username, q.password, q.model_name, q.api_key,
                   q.system_prompt, now, q.db, Env(q.load), q.build)
    IN  /\ r.resp.status = 400
        /\ r.resp.cause \in RejectCauses
        /\ ~r.resp.registered /\ ~r.resp.closed
        /\ r.M = M0
        /\ r.dirs = dirs
        /\ u \in DOMAIN sessions =>
              /\ r.M.sessions[u] = sessions[u]
              /\ r.M.objs[sessions[u]] = objs[sessions[u]]
              /\ r.M.objs[sessions[u]].is_active

\* C24: a login rejected for a missing or empty required field or for failed
\* authentication (unknown username, wrong password) creates no session and
\* leaves the store as it is. In every reachable state such a request is
\* answered 400 and leaves the manager and the disk unchanged, the session
\* registered for that username included, which stays active with its
\* history; and the last request that changed the state is never such a
\* login.
C24_RejectedLoginNoChange ==
  [](C24_Rejected /\ (resp.op = "login" => resp.cause \notin RejectCauses))

\* C24 witness: a username has a registered, active session that holds a
\* turn, and a login for it with a wrong password can be sent.
C24_Witness ==
  \E u \in DOMAIN sessions :
    /\ objs[sessions[u]].is_active
    /\ objs[sessions[u]].history_context # <<>>
    /\ ENABLED Login(LoginRequest(u, "bad_password"), StdFiles)

\* C25: a chat request with an empty required field (empty username or empty
\* message) is rejected: the backend is not invoked and the session's history
\* and last-activity are not changed. In every reachable state such a request
\* does not enter the backend call and leaves the manager as it is. The code
\* has no check of the fields: a request with an empty message for a
\* registered username is dispatched like any other.
C25_EmptyChatRejected ==
  \A u \in NameInputs, m \in Messages :
    (u = "" \/ m = "") =>
      LET n == chat(M0, UserMessage(u, m), now)
      IN  /\ n.pc # "backend"
          /\ n.M = M0

\* the manager's answers to /users and /health show no closed session
NoneClosedVisible(M) ==
  /\ \A u \in DOMAIN M.sessions : M.objs[M.sessions[u]].is_active
  /\ \A e \in get_active_users(M) : e.is_active
  /\ {e.username : e \in get_active_users(M)} = DOMAIN M.sessions
  /\ health_check(M).active_users =
        Cardinality({i \in 1..Len(M.objs) : M.objs[i].is_active})

\* what C26 says of one state
C26_NoneClosed ==
  /\ NoneClosedVisible(M0)
  /\ \A u \in NameInputs :
       /\ NoneClosedVisible(logout(M0, u).M)
       /\ \A e \in get_active_users(logout(M0, u).M) : e.username # u
  /\ NoneClosedVisible(cleanup_inactive_sessions(M0, CleanupTimeout, now))

\* C26: no soft-delete state is visible. In every reachable state every
\* session present in the store has its active flag set, so /users lists
\* exactly the registered usernames, none with is_active false, and /health's
\* active_users is the number of session objects whose active flag is set;
\* and the same is true of the manager right after a logout of any username
\* (which /users then no longer lists) and right after a sweep.
C26_NoSoftDelete == []C26_NoneClosed

\* C26 witness: a logout or a sweep has just closed a session, whose object
\* still exists with the flag cleared, while another session is registered.
C26_Witness ==
  /\ resp.op \in {"logout", "sweep"}
  /\ \E i \in 1..Len(objs) :
       ~objs[i].is_active /\ objs[i].username \notin DOMAIN sessions
  /\ get_active_users(M0) # {}

\* the calls that have a record in history h
CallsIn(h) == {h[k][1] : k \in 1..Len(h)}

\* what C27 says of one state: a call in the backend has no record in any
\* session but its own, and its write-back changes its own session only
C27_OwnSessionOnly ==
  \A c \in CallIds :
    calls[c].pc = "backend" =>
      /\ \A i \in 1..Len(objs) :
           i # calls[c].sid => c \notin CallsIn(objs[i].history_context)
      /\ LET M == chat_return(M0, calls[c], c)
         IN  /\ M.sessions = sessions
             /\ \A i \in 1..Len(objs) : i # calls[c].sid => M.objs[i] = objs[i]

\* C27: a chat call started against a session that is closed and replaced by
\* a new login before its backend call returns never writes its result into
\* the replacing session. In every step in which a call returns, every
\* session object but the one the call was started with is unchanged, the
\* session now registered for the username included; a session is registered
\* with an empty history; so the history of the new session holds records of
\* calls started with it only.
C27_NoWriteIntoReplacement ==
  /\ []C27_OwnSessionOnly
  /\ [][\A c \in CallIds :
          ChatReturn(c) =>
            /\ \A i \in 1..Len(objs) : i # calls[c].sid => objs'[i] = objs[i]
            /\ objs'[calls[c].sid].history_context =
                  AllMessages(calls[c].history, c)]_vars
  /\ [][\A u \in Users :
          (u \in DOMAIN sessions' /\ (u \in DOMAIN sessions => sessions'[u] # sessions[u]))
          => objs'[sessions'[u]].history_context = <<>>]_vars

\* C27 witness: a chat call has just returned for a username whose session
\* was replaced while the call was in the backend: the session registered now
\* still has an empty history, and the closed one holds the turn.
C27_Witness ==
  /\ resp.op = "chat" /\ resp.status = 200
  /\ resp.username \in DOMAIN sessions
  /\ objs[sessions[resp.username]].history_context = <<>>
  /\ \E i \in 1..Len(objs) :
       /\ i < sessions[resp.username]
       /\ objs[i].username = resp.username
       /\ ~objs[i].is_active
       /\ objs[i].history_context # <<>>

\* what C28 says of one state: no step of a chat request changes the map, and
\* a call whose session is no longer registered can still return or fail
C28_MapKept ==
  /\ \A u \in NameInputs, m \in Messages :
       chat(M0, UserMessage(u, m), now).M.sessions = sessions
  /\ \A c \in CallIds :
       calls[c].pc = "backend" =>
         /\ ENABLED ChatReturn(c)
         /\ ENABLED ChatFail(c)
         /\ chat_return(M0, calls[c], c).sessions = sessions
         /\ chat_fail(M0, calls[c], c).sessions = sessions

\* C28: chat never changes store membership. No step of a chat call (the
\* lookup and touch at its start, the completion of the backend call, its
\* failure) adds a username to the store or removes one: in every step that
\* moves a chat call (these are the steps that change `calls`) the map is the
\* same before and after. A call whose session was logged out or evicted while it
\* was in the backend still completes or fails, and the username stays absent.
C28_ChatKeepsMembership ==
  /\ []C28_MapKept
  /\ [][calls' # calls => sessions' = sessions]_vars

\* C28 witness: a chat call has just completed with 200 for a username that
\* is absent from the store: its session, closed while the call was in the
\* backend, holds the turn.
C28_Witness ==
  /\ resp.op = "chat" /\ resp.status = 200
  /\ resp.username \notin DOMAIN sessions
  /\ \E i \in 1..Len(objs) :
       /\ objs[i].username = resp.username
       /\ ~objs[i].is_active
       /\ objs[i].history_context # <<>>

\* C29: the idle reaper never evicts a session while one of its chat calls is
\* in flight, however long the backend call lasts. In every sweep, a session
\* that is registered and has a call suspended in the backend stays
\* registered and active. The code stamps last-activity once, before the
\* await, and the sweep looks at that stamp only: a backend call that lasts
\* longer than the threshold loses its session to the next sweep.
C29_NoEvictionInFlight ==
  [][Sweep =>
       \A c \in CallIds :
         ( /\ calls[c].pc = "backend"
           /\ calls[c].username \in DOMAIN sessions
           /\ sessions[calls[c].username] = calls[c].sid )
         => /\ calls[c].username \in DOMAIN sessions'
            /\ objs'[calls[c].sid].is_active]_vars

\* the session registered for v in manager M is registered, and the same
\* object with the same fields, in manager N
KeptIn(M, N, v) ==
  /\ v \in DOMAIN N.sessions
  /\ N.sessions[v] = M.sessions[v]
  /\ N.objs[M.sessions[v]] = M.objs[M.sessions[v]]

\* what C30 says of one state: each handler, applied for a username u, keeps
\* the session of every other username v
C30_Frame ==
  \A v \in DOMAIN sessions :
    /\ \A u \in Users \ {v}, f \in LoginFaults :
         LET q == LoginRequest(u, f)
         IN  KeptIn(M0, login(M0, q.username, q.password, q.model_name, q.api_key,
                              q.system_prompt, now, q.db, Env(q.load), q.build).M, v)
    /\ \A u \in NameInputs \ {v} :
         /\ KeptIn(M0, logout(M0, u).M, v)
         /\ \A m \in Messages : KeptIn(M0, chat(M0, UserMessage(u, m), now).M, v)
    /\ \A c \in CallIds :
         (calls[c].pc = "backend" /\ calls[c].username # v) =>
           /\ KeptIn(M0, chat_return(M0, calls[c], c), v)
           /\ KeptIn(M0, chat_fail(M0, calls[c], c), v)

\* C30: per-user frame. A login (successful or failed), a logout or a step of
\* a chat call for username u never changes the registered session of another
\* username v: v stays in the store with the same session object, whose
\* history, last-activity, active flag, agent and config are unchanged. This
\* is so of every handler applied to every reachable state, and of every step
\* answered as a login, logout or chat request of u (a request that changes
\* nothing leaves the answer of an earlier one, and changes no session).
C30_PerUserFrame ==
  /\ []C30_Frame
  /\ [][\A v \in Users :
          ( /\ v \in DOMAIN sessions
            /\ resp'.op \in {"login", "logout", "chat"}
            /\ resp'.username # v )
          => /\ v \in DOMAIN sessions'
             /\ sessions'[v] = sessions[v]
             /\ objs'[sessions[v]] = objs[sessions[v]]]_vars

\* C30 witness: a login has just registered a session for one username while
\* another username is registered with a session that holds a turn.
C30_Witness ==
  /\ resp.op = "login" /\ resp.registered
  /\ \E v \in DOMAIN sessions \ {resp.username} :
       /\ objs[sessions[v]].is_active
       /\ objs[sessions[v]].history_context # <<>>

====
